---- MODULE Spec2Model ----
(***************************************************************************)
(* Payment-session reconciliation pipeline of KCE:                         *)
(*   - the Stripe webhook receiver (app/api/webhooks/stripe/route.ts),     *)
(*     concurrent deliveries over the bookings / events tables;            *)
(*   - the checkout request handler (app/api/checkout/route.ts) and the    *)
(*     provider's idempotent session creation.                             *)
(* Every await on the database, on Stripe or on the mail API is one step;  *)
(* deliveries interleave between steps.                                    *)
(***************************************************************************)
EXTENDS Integers, Sequences, FiniteSets, Bags, TLC

\* ---------------------------------------------------------------- bounds
NumDeliveries == 2
MaxFaults == 1
NumCheckouts == 2
MaxTicks == 1
NumCallers == 2
MaxLookups == 3
MaxClockSteps == 3
NumReviews == 2

Deliveries == 1..NumDeliveries

None == "none"

\* data of a select that matched no row (existing.data?.id is undefined)
NoRow == [id |-> 0, status |-> None]

\* ------------------------------------------------- provider-side fixtures
\* Checkout sessions known to the provider and the payment intents that
\* sessions.list({payment_intent}) resolves.
SessionIds == {"cs_1", "cs_2"}

PaymentIntents == {"pi_1", "pi_9"}

ListSessionByIntent(pi) == IF pi = "pi_1" THEN "cs_1" ELSE None

\* Stripe events that can be delivered: id -> type and data.object.
\* session: the checkout session of data.object (checkout.session.*),
\* pi: the payment intent (payment_intent.*, charge.refunded),
\* payment_status: the session's own payment_status field.
EventCatalog ==
  [ evt_1  |-> [type |-> "checkout.session.completed", session |-> "cs_1",
                pi |-> None, payment_status |-> "paid"],
    evt_2  |-> [type |-> "checkout.session.completed", session |-> "cs_1",
                pi |-> None, payment_status |-> "paid"],
    evt_3  |-> [type |-> "payment_intent.succeeded", session |-> None,
                pi |-> "pi_1", payment_status |-> "paid"],
    evt_4  |-> [type |-> "checkout.session.expired", session |-> "cs_1",
                pi |-> None, payment_status |-> "unpaid"],
    evt_5  |-> [type |-> "charge.refunded", session |-> None,
                pi |-> "pi_1", payment_status |-> "paid"],
    evt_6  |-> [type |-> "checkout.session.completed", session |-> "cs_2",
                pi |-> None, payment_status |-> "unpaid"],
    evt_7  |-> [type |-> "checkout.session.async_payment_succeeded", session |-> "cs_2",
                pi |-> None, payment_status |-> "paid"],
    evt_8  |-> [type |-> "checkout.session.async_payment_failed", session |-> "cs_2",
                pi |-> None, payment_status |-> "unpaid"],
    evt_9  |-> [type |-> "payment_intent.succeeded", session |-> None,
                pi |-> "pi_9", payment_status |-> "paid"],
    evt_10 |-> [type |-> "payment_intent.payment_failed", session |-> None,
                pi |-> "pi_1", payment_status |-> "unpaid"],
    evt_11 |-> [type |-> "customer.created", session |-> None,
                pi |-> None, payment_status |-> "unpaid"],
    evt_12 |-> [type |-> "checkout.session.expired", session |-> "cs_2",
                pi |-> None, payment_status |-> "unpaid"] ]

EventIds == DOMAIN EventCatalog

\* stripe-signature header of a request: absent, present but not matching
\* the raw body, or valid.
Signatures == {"missing", "bad", "good"}

UpsertTypes == {"checkout.session.completed", "checkout.session.async_payment_succeeded"}

VARIABLES
  isProd,      \* process.env.NODE_ENV === 'production'
  stripeEnv,   \* STRIPE_WEBHOOK_SECRET and STRIPE_SECRET_KEY are both set
  resendKey,   \* RESEND_API_KEY is set
  bookings,    \* public.bookings: set of rows
  events,      \* public.events: bag of [type, ref] rows
  emails,      \* mails accepted by the mail API: bag of [session, attachment]
  pc,          \* per delivery: position in POST
  sig,         \* per delivery: stripe-signature header of the request
  ev,          \* per delivery: event.id after constructEvent
  sess,        \* per delivery: session the handler works on
  existing,    \* per delivery: row read by the select before a write
  inner,       \* per delivery: inside the try of case payment_intent.succeeded
  threw,       \* per delivery: where an exception was raised, or None
  resp,        \* per delivery: HTTP status answered, 0 while running
  duplicate,   \* per delivery: answered as duplicate
  wrote,       \* per delivery: booking rows it inserted or updated
  mailed,      \* per delivery: mails it sent
  rowAtArrival,\* per delivery: a booking row of its session existed at arrival
  faults       \* failures of external calls injected so far

webhookVars == <<isProd, stripeEnv, resendKey, bookings, events, emails, pc, sig, ev, sess,
                 existing, inner, threw, resp, duplicate, wrote, mailed, rowAtArrival,
                 faults>>

VARIABLES
  stripeMock,       \* isStripeMock || !process.env.STRIPE_SECRET_KEY
  catalogCurrency,  \* process.env.CATALOG_CURRENCY?.toUpperCase() || 'COP'
  copUsdRate,       \* Number(process.env.STRIPE_COP_USD_RATE || '4000')
  expiresMinEnv,    \* process.env.STRIPE_SESSION_EXPIRES_MIN: <<string>>, <<>> when unset
  nowSec,           \* Math.floor(Date.now() / 1000), counted from 2026-01-10T00:00:00Z
  idempotency,      \* provider: idempotency keys used, with the params and the session
  sessions,         \* provider: checkout sessions created
  submitted,        \* checkout requests handled so far
  last,             \* the checkout request handled last and what it led to
  prev,             \* the same for the request handled before it
  quote,            \* <<params, request, tour>>: the sessions.create parameters built last
  payload           \* <<row>>: the bookings insert payload derived from their metadata

checkoutVars == <<stripeMock, catalogCurrency, copUsdRate, expiresMinEnv, nowSec,
                  idempotency, sessions, submitted, last, prev, quote, payload>>

VARIABLES
  sbConfigured,     \* isPublicSupabaseConfigured()
  TOUR_CACHE,       \* slug key -> <<[expires, value]>>, <<>> when the key has no entry
  nowMs,            \* Date.now() of the tours server, in ms
  lookups,          \* per caller: the getTourBySlug call it is in, or its last one
  lookupsStarted    \* calls of getTourBySlug so far

lookupVars == <<sbConfigured, TOUR_CACHE, nowMs, lookups, lookupsStarted>>

VARIABLES
  reviews,          \* public.reviews: bag of rows
  reviewEvents,     \* 'review_submitted' rows of public.events for the IP and slug, in the window
  rq,               \* per review request: position in POST, body, what it did
  reviewFaults      \* failures of database calls of the reviews route injected so far

reviewVars == <<reviews, reviewEvents, rq, reviewFaults>>

vars == <<webhookVars, checkoutVars, lookupVars, reviewVars>>

\* ------------------------------------------------------------ tours server, idle
Callers == 1..NumCallers

\* keys of TOUR_CACHE: trimmed, lower-cased slugs
SlugKeys == {"bogota-coffee-culture", "no-such-tour"}

\* null result of getTourBySlug
NullTour == [slug |-> None, price |-> 0, source |-> None]

\* a caller that has not called getTourBySlug
NoLookup ==
  [pc |-> "idle", raw |-> None, key |-> None, exact |-> None, ci |-> None,
   result |-> NullTour, cached |-> FALSE, hitExpires |-> 0, at |-> 0]

\* module state of features/tours/server.ts after import: empty cache
LookupIdle ==
  /\ TOUR_CACHE = [k \in SlugKeys |-> <<>>]
  /\ nowMs = 0
  /\ lookups = [c \in Callers |-> NoLookup]
  /\ lookupsStarted = 0

\* ------------------------------------------------------------ reviews route, idle
ReviewRequests == 1..NumReviews

\* body of a request that has not arrived
NoBody ==
  [rating |-> 0, comment |-> None, honeypot |-> None, website |-> None, tooSoon |-> FALSE]

NoReview ==
  [pc |-> "start", body |-> NoBody, eventsAtArrival |-> 0, status |-> 0,
   insertedReview |-> FALSE, insertedEvent |-> FALSE]

\* no review request yet; reviews and events tables without rows
ReviewIdle ==
  /\ reviews = EmptyBag
  /\ reviewEvents = 0
  /\ rq = [r \in ReviewRequests |-> NoReview]
  /\ reviewFaults = 0

\* ------------------------------------------------------------ table helpers
Row(type, ref) == [type |-> type, ref |-> ref]

CountRows(type, ref) == CopiesIn(Row(type, ref), events)

InsertEvent(type, ref) == events (+) SetToBag({Row(type, ref)})

BookingsOf(sid) == {b \in bookings : b.stripe_session_id = sid}

\* supabase .maybeSingle(): data is the row when exactly one row matches,
\* null when none matches, and null with an error when several match.
MaybeSingleError(n) == n > 1

\* unique constraint of bookings.stripe_session_id
NoUniqueConstraint(rows, sid) == FALSE

UniqueViolation(rows, sid) == \E b \in rows : b.stripe_session_id = sid

NewBookingId == Cardinality(bookings) + 1

\* status assumed from the event type alone (not what the code does)
bookingStatusFromEventType(payment_status) == "paid"

\* status derived from the session's own payment_status
bookingStatus(payment_status) == IF payment_status = "paid" THEN "paid" ELSE "pending"

CanFail == faults < MaxFaults

TypeOf(d) == EventCatalog[ev[d]].type

\* no request received yet
RequestsStart ==
  /\ pc = [d \in Deliveries |-> "start"]
  /\ sig = [d \in Deliveries |-> None]
  /\ ev = [d \in Deliveries |-> None]
  /\ sess = [d \in Deliveries |-> None]
  /\ existing = [d \in Deliveries |-> NoRow]
  /\ inner = [d \in Deliveries |-> FALSE]
  /\ threw = [d \in Deliveries |-> None]
  /\ resp = [d \in Deliveries |-> 0]
  /\ duplicate = [d \in Deliveries |-> FALSE]
  /\ wrote = [d \in Deliveries |-> 0]
  /\ mailed = [d \in Deliveries |-> 0]
  /\ rowAtArrival = [d \in Deliveries |-> FALSE]
  /\ faults = 0

\* empty tables, no request received yet
WebhookStart ==
  /\ bookings = {}
  /\ events = EmptyBag
  /\ emails = EmptyBag
  /\ RequestsStart

WebhookInit ==
  /\ isProd \in BOOLEAN
  /\ stripeEnv \in BOOLEAN
  /\ resendKey \in BOOLEAN
  /\ WebhookStart


\* ------------------------------------------------------------ values read from session.metadata
\* /^\d{4}-\d{2}-\d{2}$/
MatchesYMD(str) == str \in {"2026-01-09", "2026-01-10", "2026-01-11", "2026-13-45"}

\* days since 2025-12-31 of the calendar dates of the model; new Date(...) of
\* month 13 is an invalid date (NaN), encoded as -1
DayIndex(ymd) ==
  CASE ymd = "2026-01-09" -> 9
    [] ymd = "2026-01-10" -> 10
    [] ymd = "2026-01-11" -> 11
    [] OTHER -> -1

\* parseYMD(ymd) is not null
parseYMD(ymd) == MatchesYMD(ymd) /\ DayIndex(ymd) >= 0

\* Number(str) on the strings of the model: <<n>>, or <<>> for NaN
Number(str) ==
  CASE str = "0" -> <<0>>
    [] str = "1" -> <<1>>
    [] str = "2" -> <<2>>
    [] str = "3" -> <<3>>
    [] str = "5" -> <<5>>
    [] str = "10" -> <<10>>
    [] str = "30" -> <<30>>
    [] str = "50" -> <<50>>
    [] str = "60" -> <<60>>
    [] str = "90" -> <<90>>
    [] str = "580" -> <<580>>
    [] str = "100000" -> <<100000>>
    [] str = "110000" -> <<110000>>
    [] str = "120000" -> <<120000>>
    [] OTHER -> <<>>

\* String.prototype.trim on the strings of the model
trim(str) ==
  CASE str = " Ana Ruiz " -> "Ana Ruiz"
    [] str = "  " -> ""
    [] OTHER -> str

\* typeof v === 'string' ? v.trim() : ''
safeStr(v) == trim(v)

\* the persons of every booking taken as 1 (not what the code does)
quantityDefault(meta) == 1

\* Number(meta.quantity ?? 0) || 1
quantityOf(meta) ==
  LET n == Number(meta.quantity) IN
  IF n = <<>> \/ n = <<0>> THEN 1 ELSE n[1]

\* new Date().toISOString().slice(0, 10)
Today == "2026-01-10"

\* parseYMD(safeStr(meta.date)) ?? today
dateStr(meta) == IF parseYMD(safeStr(meta.date)) THEN safeStr(meta.date) ELSE Today

\* meta.tour_price_cop ? Number(meta.tour_price_cop) : null, as <<n>>; the
\* alternative key meta.tour_price is not set by the checkout route
tour_price_cop(meta) ==
  IF meta.tour_price_cop = "" THEN <<>> ELSE Number(meta.tour_price_cop)

\* the fields of the insert that come from session.metadata; null is None
insertPayload(meta) ==
  [date |-> dateStr(meta),
   persons |-> quantityOf(meta),
   customer_name |-> IF safeStr(meta.customer_name) = "" THEN None
                     ELSE safeStr(meta.customer_name),
   phone |-> IF safeStr(meta.phone) = "" THEN None ELSE safeStr(meta.phone),
   tour_price_cop |-> tour_price_cop(meta)]

\* ------------------------------------------------------------ fixtures of a session
\* session.customer_details?.email || session.customer_email
CustomerEmail(sid) == IF sid = "cs_1" THEN "ana@kce.co" ELSE "luis@kce.co"

\* session.amount_total (minor units)
AmountTotal(sid) == IF sid = "cs_1" THEN 3000 ELSE 5500

\* session.metadata: cs_1 was created by the checkout route, cs_2 carries no
\* metadata (a key that is absent reads as "")
SessionMetadata(sid) ==
  IF sid = "cs_1"
    THEN [date |-> "2026-01-11", quantity |-> "3", tour_title |-> "Bogotá Coffee Culture",
          tour_slug |-> "bogota-coffee-culture", tour_price_cop |-> "120000",
          customer_name |-> "Ana Ruiz", phone |-> "+57 300 000 0000",
          origin_currency |-> "COP", catalog_currency |-> "COP"]
    ELSE [date |-> "", quantity |-> "", tour_title |-> "", tour_slug |-> "",
          tour_price_cop |-> "", customer_name |-> "", phone |-> "",
          origin_currency |-> "", catalog_currency |-> ""]

\* id of the row of the tours table that the slug or title of the metadata
\* names, null when there is none
TourId(sid) == IF sid = "cs_1" THEN "tour_1" ELSE None

\* safeStr(meta.origin_currency) || safeStr(meta.currency) || 'COP'
origin_currency(meta) ==
  IF safeStr(meta.origin_currency) # "" THEN safeStr(meta.origin_currency) ELSE "COP"

\* the columns the update branch writes
updatePayload(sid, status) ==
  LET meta == SessionMetadata(sid) IN
  [status |-> status,
   total |-> AmountTotal(sid),
   currency |-> "USD",
   origin_currency |-> origin_currency(meta),
   tour_price_cop |-> tour_price_cop(meta),
   payment_provider |-> "stripe",
   customer_email |-> CustomerEmail(sid),
   customer_name |-> insertPayload(meta).customer_name,
   phone |-> insertPayload(meta).phone]

\* the row the insert branch writes for a session, with the id the table gives it
BookingRow(id, sid, status) ==
  LET meta == SessionMetadata(sid)
      p == updatePayload(sid, status)
  IN
  [id |-> id, stripe_session_id |-> sid, user_id |-> None, tour_id |-> TourId(sid),
   date |-> insertPayload(meta).date, persons |-> insertPayload(meta).persons,
   extras |-> meta,
   status |-> p.status, total |-> p.total, currency |-> p.currency,
   origin_currency |-> p.origin_currency, tour_price_cop |-> p.tour_price_cop,
   payment_provider |-> p.payment_provider, customer_email |-> p.customer_email,
   customer_name |-> p.customer_name, phone |-> p.phone]

\* ------------------------------------------------------------ responses
Finish(d, status) ==
  /\ pc' = [pc EXCEPT ![d] = "done"]
  /\ resp' = [resp EXCEPT ![d] = status]

\* Deliveries are numbered in their order of arrival.
Arrives(d) ==
  /\ pc[d] = "start"
  /\ \A c \in Deliveries : c < d => pc[c] # "start"

\* catch of POST: 500 in production so that Stripe retries, 200 otherwise
CatchStatus == IF isProd THEN 500 ELSE 200

\* An exception raised in the switch: inside the try of case
\* payment_intent.succeeded it is caught there and only logged; anywhere else
\* it reaches the catch of POST.
Raise(d, where) ==
  /\ threw' = [threw EXCEPT ![d] = where]
  /\ IF inner[d]
       THEN /\ pc' = [pc EXCEPT ![d] = "log"]
            /\ UNCHANGED resp
       ELSE Finish(d, CatchStatus)

\* type of the audit row that logEvent appends for the delivery
AuditType(d) ==
  LET t == TypeOf(d) IN
  CASE t = "checkout.session.completed" -> "stripe_checkout_completed"
    [] t = "checkout.session.async_payment_succeeded" -> "stripe_checkout_async_succeeded"
    [] t = "checkout.session.async_payment_failed" -> "stripe_checkout_async_failed"
    [] t = "checkout.session.expired" -> "stripe_checkout_expired"
    [] t = "payment_intent.succeeded" ->
         IF threw[d] # None THEN "stripe_pi_succeeded_lookup_error"
         ELSE IF sess[d] # None THEN "stripe_pi_succeeded_linked"
         ELSE "stripe_pi_succeeded_unlinked"
    [] t = "payment_intent.payment_failed" -> "stripe_pi_failed"
    [] t = "charge.refunded" ->
         IF sess[d] # None THEN "stripe_charge_refunded" ELSE "stripe_charge_refunded_orphan"
    [] OTHER -> "stripe_unhandled_event"

\* checkout.session.expired handled like a completed checkout (not what the code does)
DispatchExpiredUpserts(t) ==
  CASE t \in UpsertTypes \cup {"checkout.session.expired"} -> "upsertSelect"
    [] t \in {"payment_intent.succeeded", "charge.refunded"} -> "list"
    [] OTHER -> "log"

\* checkout.session.async_payment_failed handled like a completed checkout
\* (not what the code does)
DispatchFailedUpserts(t) ==
  CASE t \in UpsertTypes \cup {"checkout.session.async_payment_failed"} -> "upsertSelect"
    [] t = "checkout.session.expired" -> "statusSelect"
    [] t \in {"payment_intent.succeeded", "charge.refunded"} -> "list"
    [] OTHER -> "log"

\* first await of the case of the switch for an event type
Dispatch(t) ==
  CASE t \in UpsertTypes -> "upsertSelect"
    [] t = "checkout.session.expired" -> "statusSelect"
    [] t \in {"payment_intent.succeeded", "charge.refunded"} -> "list"
    [] OTHER -> "log"

\* stripe.webhooks.constructEvent(rawBody, sig, webhookSecret)
constructEventAcceptsAll(h) == TRUE

constructEventOk(h) == h = "good"

\* ------------------------------------------------------------ POST: entry
\* Missing Stripe configuration: 500 in production, 200 "skipped" otherwise.
PostEnvMissing(d) ==
  /\ Arrives(d)
  /\ ~stripeEnv
  /\ \E h \in Signatures : sig' = [sig EXCEPT ![d] = h]
  /\ Finish(d, IF isProd THEN 500 ELSE 200)
  /\ UNCHANGED <<isProd, stripeEnv, resendKey, bookings, events, emails, ev, sess,
                 existing, inner, threw, duplicate, wrote, mailed, rowAtArrival, faults>>
  /\ UNCHANGED <<checkoutVars, lookupVars, reviewVars>>

\* Missing stripe-signature header, or constructEvent throws: 400.
PostRejectSignature(d) ==
  /\ Arrives(d)
  /\ stripeEnv
  /\ \E h \in Signatures :
       /\ h = "missing" \/ ~constructEventOk(h)
       /\ sig' = [sig EXCEPT ![d] = h]
       /\ Finish(d, 400)
  /\ UNCHANGED <<isProd, stripeEnv, resendKey, bookings, events, emails, ev, sess,
                 existing, inner, threw, duplicate, wrote, mailed, rowAtArrival, faults>>
  /\ UNCHANGED <<checkoutVars, lookupVars, reviewVars>>

\* Signature verified: the event is parsed and seenOrMarkEvent starts.
PostVerified(d) ==
  /\ Arrives(d)
  /\ stripeEnv
  /\ \E h \in Signatures, e \in EventIds :
       /\ h # "missing" /\ constructEventOk(h)
       /\ sig' = [sig EXCEPT ![d] = h]
       /\ ev' = [ev EXCEPT ![d] = e]
       /\ sess' = [sess EXCEPT ![d] = EventCatalog[e].session]
       /\ rowAtArrival' = [rowAtArrival EXCEPT ![d] =
            LET s == IF EventCatalog[e].session # None THEN EventCatalog[e].session
                     ELSE ListSessionByIntent(EventCatalog[e].pi)
            IN BookingsOf(s) # {}]
  /\ pc' = [pc EXCEPT ![d] = "seenSelect"]
  /\ UNCHANGED <<isProd, stripeEnv, resendKey, bookings, events, emails,
                 existing, inner, threw, resp, duplicate, wrote, mailed, faults>>
  /\ UNCHANGED <<checkoutVars, lookupVars, reviewVars>>

\* ------------------------------------------------------------ seenOrMarkEvent
\* select ... eq(type,'stripe_event_seen').contains(payload,{event_id}).maybeSingle()
\* A failed select, or several matching rows, leaves data null: not seen.
SeenOrMarkEventSelect(d) ==
  /\ pc[d] = "seenSelect"
  /\ LET n == CountRows("stripe_event_seen", ev[d]) IN
     \/ /\ n = 1
        /\ Finish(d, 200)
        /\ duplicate' = [duplicate EXCEPT ![d] = TRUE]
        /\ UNCHANGED faults
     \/ /\ n = 0 \/ MaybeSingleError(n)
        /\ pc' = [pc EXCEPT ![d] = "seenInsert"]
        /\ UNCHANGED <<resp, duplicate, faults>>
     \/ /\ CanFail /\ n = 1
        /\ faults' = faults + 1
        /\ pc' = [pc EXCEPT ![d] = "seenInsert"]
        /\ UNCHANGED <<resp, duplicate>>
  /\ UNCHANGED <<isProd, stripeEnv, resendKey, bookings, events, emails, sig, ev, sess,
                 existing, inner, threw, wrote, mailed, rowAtArrival>>
  /\ UNCHANGED <<checkoutVars, lookupVars, reviewVars>>

\* insert of the 'stripe_event_seen' row; its error is not looked at.
SeenOrMarkEventInsert(d) ==
  /\ pc[d] = "seenInsert"
  /\ \/ /\ events' = InsertEvent("stripe_event_seen", ev[d])
        /\ UNCHANGED faults
     \/ /\ CanFail
        /\ faults' = faults + 1
        /\ UNCHANGED events
  /\ pc' = [pc EXCEPT ![d] = Dispatch(TypeOf(d))]
  /\ inner' = [inner EXCEPT ![d] = TypeOf(d) = "payment_intent.succeeded"]
  /\ UNCHANGED <<isProd, stripeEnv, resendKey, bookings, emails, sig, ev, sess,
                 existing, threw, resp, duplicate, wrote, mailed, rowAtArrival>>
  /\ UNCHANGED <<checkoutVars, lookupVars, reviewVars>>


\* ------------------------------------------------------------ sessions.list
\* getStripe().checkout.sessions.list({ payment_intent, limit: 1 }) of the cases
\* payment_intent.succeeded and charge.refunded.
ListSessions(d) ==
  /\ pc[d] = "list"
  /\ \/ /\ LET s == ListSessionByIntent(EventCatalog[ev[d]].pi) IN
           /\ sess' = [sess EXCEPT ![d] = s]
           /\ pc' = [pc EXCEPT ![d] =
                IF s = None THEN "log"
                ELSE IF TypeOf(d) = "charge.refunded" THEN "statusSelect"
                ELSE "upsertSelect"]
        /\ UNCHANGED <<threw, resp, faults>>
     \/ /\ CanFail
        /\ faults' = faults + 1
        /\ Raise(d, "list")
        /\ UNCHANGED sess
  /\ UNCHANGED <<isProd, stripeEnv, resendKey, bookings, events, emails, sig, ev,
                 existing, inner, duplicate, wrote, mailed, rowAtArrival>>
  /\ UNCHANGED <<checkoutVars, lookupVars, reviewVars>>

\* ------------------------------------------------------------ upsertBookingFromSession
\* select('id,status').eq('stripe_session_id', ...).maybeSingle(); its error is thrown.
UpsertBookingSelect(d) ==
  /\ pc[d] = "upsertSelect"
  /\ LET rows == BookingsOf(sess[d]) IN
     \/ /\ ~MaybeSingleError(Cardinality(rows))
        /\ existing' = [existing EXCEPT ![d] =
             IF rows = {} THEN NoRow
             ELSE LET b == CHOOSE b \in rows : TRUE IN [id |-> b.id, status |-> b.status]]
        /\ pc' = [pc EXCEPT ![d] = "upsertWrite"]
        /\ UNCHANGED <<threw, resp, faults>>
     \/ /\ MaybeSingleError(Cardinality(rows))
        /\ Raise(d, "upsert")
        /\ UNCHANGED <<existing, faults>>
     \/ /\ CanFail
        /\ faults' = faults + 1
        /\ Raise(d, "upsert")
        /\ UNCHANGED existing
  /\ UNCHANGED <<isProd, stripeEnv, resendKey, bookings, events, emails, sig, ev, sess,
                 inner, duplicate, wrote, mailed, rowAtArrival>>
  /\ UNCHANGED <<checkoutVars, lookupVars, reviewVars>>

\* update({ status: bookingStatus, total: amount_total, ... }) of the update
\* branch, with a guard that keeps a canceled row canceled (not what the code does)
UpdatedRowKeepsCanceled(b, status, sid) ==
  LET p == updatePayload(sid, status) IN
  [b EXCEPT !.status = IF b.status = "canceled" THEN "canceled" ELSE p.status,
            !.total = p.total, !.currency = p.currency,
            !.origin_currency = p.origin_currency, !.tour_price_cop = p.tour_price_cop,
            !.payment_provider = p.payment_provider, !.customer_email = p.customer_email,
            !.customer_name = p.customer_name, !.phone = p.phone]

\* an update that writes every column of the insert again, date and persons
\* from their defaults (not what the code does)
UpdatedRowRewritesAll(b, status, sid) ==
  [BookingRow(b.id, sid, status) EXCEPT !.date = Today, !.persons = 1, !.tour_id = None]

\* update({ status: bookingStatus, total: amount_total, ... }) of the update branch
UpdatedRow(b, status, sid) ==
  LET p == updatePayload(sid, status) IN
  [b EXCEPT !.status = p.status, !.total = p.total, !.currency = p.currency,
            !.origin_currency = p.origin_currency, !.tour_price_cop = p.tour_price_cop,
            !.payment_provider = p.payment_provider, !.customer_email = p.customer_email,
            !.customer_name = p.customer_name, !.phone = p.phone]

\* row written by the insert branch
NewBooking(sid, status) == BookingRow(NewBookingId, sid, status)

\* update(...).eq('id', existing.data.id) when a row was read, insert otherwise;
\* the insert fails when the unique constraint on stripe_session_id is violated.
UpsertBookingWrite(d) ==
  /\ pc[d] = "upsertWrite"
  /\ LET status == bookingStatus(EventCatalog[ev[d]].payment_status)
         ok == /\ wrote' = [wrote EXCEPT ![d] = @ + 1]
               /\ pc' = [pc EXCEPT ![d] = "log"]
               /\ UNCHANGED <<threw, resp, faults>>
     IN
     \/ /\ existing[d] # NoRow
        /\ bookings' = {IF b.id = existing[d].id
                          THEN UpdatedRow(b, status, sess[d])
                          ELSE b : b \in bookings}
        /\ ok
     \/ /\ existing[d] = NoRow
        /\ ~UniqueViolation(bookings, sess[d])
        /\ bookings' = bookings \cup {NewBooking(sess[d], status)}
        /\ ok
     \/ /\ existing[d] = NoRow
        /\ UniqueViolation(bookings, sess[d])
        /\ Raise(d, "upsert")
        /\ UNCHANGED <<bookings, wrote, faults>>
     \/ /\ CanFail
        /\ faults' = faults + 1
        /\ Raise(d, "upsert")
        /\ UNCHANGED <<bookings, wrote>>
  /\ UNCHANGED <<isProd, stripeEnv, resendKey, events, emails, sig, ev, sess,
                 existing, inner, duplicate, mailed, rowAtArrival>>
  /\ UNCHANGED <<checkoutVars, lookupVars, reviewVars>>

\* ------------------------------------------------------------ updateBookingStatusBySessionId
\* select('id,status'): error thrown; no row: return; same status: no update.
UpdateBookingStatusSelect(d) ==
  /\ pc[d] = "statusSelect"
  /\ LET rows == BookingsOf(sess[d]) IN
     \/ /\ rows = {}
        /\ pc' = [pc EXCEPT ![d] = "log"]
        /\ UNCHANGED <<bookings, wrote, existing, threw, resp, faults>>
     \/ /\ Cardinality(rows) = 1
        /\ LET b == CHOOSE b \in rows : TRUE IN
           /\ existing' = [existing EXCEPT ![d] = [id |-> b.id, status |-> b.status]]
           /\ pc' = [pc EXCEPT ![d] = IF b.status # "canceled" THEN "statusWrite" ELSE "log"]
        /\ UNCHANGED <<bookings, wrote, threw, resp, faults>>
     \/ /\ MaybeSingleError(Cardinality(rows))
        /\ Raise(d, "status")
        /\ UNCHANGED <<bookings, wrote, existing, faults>>
     \/ /\ CanFail
        /\ faults' = faults + 1
        /\ Raise(d, "status")
        /\ UNCHANGED <<bookings, wrote, existing>>
  /\ UNCHANGED <<isProd, stripeEnv, resendKey, events, emails, sig, ev, sess,
                 inner, duplicate, mailed, rowAtArrival>>
  /\ UNCHANGED <<checkoutVars, lookupVars, reviewVars>>

\* update({ status: 'canceled' }) that also clears total (not what the code does)
CanceledRowClearsTotal(b) == [b EXCEPT !.status = "canceled", !.total = 0]

\* update({ status: nextStatus }) with nextStatus 'canceled', the only value passed
CanceledRow(b) == [b EXCEPT !.status = "canceled"]

\* update({ status: nextStatus }).eq('id', existing.id)
UpdateBookingStatusWrite(d) ==
  /\ pc[d] = "statusWrite"
  /\ \/ /\ bookings' = {IF b.id = existing[d].id THEN CanceledRow(b)
                        ELSE b : b \in bookings}
        /\ wrote' = [wrote EXCEPT ![d] = @ + 1]
        /\ pc' = [pc EXCEPT ![d] = "log"]
        /\ UNCHANGED <<threw, resp, faults>>
     \/ /\ CanFail
        /\ faults' = faults + 1
        /\ Raise(d, "status")
        /\ UNCHANGED <<bookings, wrote>>
  /\ UNCHANGED <<isProd, stripeEnv, resendKey, events, emails, sig, ev, sess,
                 existing, inner, duplicate, mailed, rowAtArrival>>
  /\ UNCHANGED <<checkoutVars, lookupVars, reviewVars>>

\* ------------------------------------------------------------ logEvent
\* only the checkout.session cases notify (not what the code does)
SendsEmailCheckoutOnly(d) ==
  /\ threw[d] = None
  /\ TypeOf(d) \in UpsertTypes

\* the cases that go on to trySendBookingEmail after their audit row
SendsEmail(d) ==
  /\ threw[d] = None
  /\ \/ TypeOf(d) \in UpsertTypes
     \/ TypeOf(d) = "payment_intent.succeeded" /\ sess[d] # None

\* insert of the audit row of the case; a failed insert is ignored.
LogEvent(d) ==
  /\ pc[d] = "log"
  /\ \/ /\ events' = InsertEvent(AuditType(d), ev[d])
        /\ UNCHANGED faults
     \/ /\ CanFail
        /\ faults' = faults + 1
        /\ UNCHANGED events
  /\ IF SendsEmail(d)
       THEN /\ pc' = [pc EXCEPT ![d] = "emailSelect"]
            /\ UNCHANGED resp
       ELSE Finish(d, 200)
  /\ UNCHANGED <<isProd, stripeEnv, resendKey, bookings, emails, sig, ev, sess,
                 existing, inner, threw, duplicate, wrote, mailed, rowAtArrival>>
  /\ UNCHANGED <<checkoutVars, lookupVars, reviewVars>>


\* ------------------------------------------------------------ trySendBookingEmail
\* No RESEND_API_KEY or no recipient: return. Otherwise the 'invoice_sent'
\* marker of the session is read with maybeSingle(); only data is looked at.
TrySendBookingEmailCheck(d) ==
  /\ pc[d] = "emailSelect"
  /\ LET n == CountRows("invoice_sent", sess[d]) IN
     \/ /\ ~resendKey \/ CustomerEmail(sess[d]) = ""
        /\ Finish(d, 200)
        /\ UNCHANGED faults
     \/ /\ resendKey /\ CustomerEmail(sess[d]) # ""
        /\ n = 1
        /\ Finish(d, 200)
        /\ UNCHANGED faults
     \/ /\ resendKey /\ CustomerEmail(sess[d]) # ""
        /\ n = 0 \/ MaybeSingleError(n)
        /\ pc' = [pc EXCEPT ![d] = "send"]
        /\ UNCHANGED <<resp, faults>>
     \/ /\ resendKey /\ CustomerEmail(sess[d]) # ""
        /\ CanFail /\ n = 1
        /\ faults' = faults + 1
        /\ pc' = [pc EXCEPT ![d] = "send"]
        /\ UNCHANGED resp
  /\ UNCHANGED <<isProd, stripeEnv, resendKey, bookings, events, emails, sig, ev, sess,
                 existing, inner, threw, duplicate, wrote, mailed, rowAtArrival>>
  /\ UNCHANGED <<checkoutVars, lookupVars, reviewVars>>

\* buildInvoicePdf, then resend.emails.send with the PDF attached. A throw of
\* either, or an error returned by send, is logged and nothing is sent.
TrySendBookingEmailSend(d) ==
  /\ pc[d] = "send"
  /\ \/ /\ emails' = emails (+) SetToBag({[session |-> sess[d], attachment |-> TRUE]})
        /\ mailed' = [mailed EXCEPT ![d] = @ + 1]
        /\ pc' = [pc EXCEPT ![d] = "markSent"]
        /\ UNCHANGED <<threw, faults>>
     \/ /\ CanFail
        /\ faults' = faults + 1
        /\ \E how \in {"email_pdf", "email_send_exception", "email_send_error"} :
             threw' = [threw EXCEPT ![d] = how]
        /\ pc' = [pc EXCEPT ![d] = "logSendFailure"]
        /\ UNCHANGED <<emails, mailed>>
  /\ UNCHANGED <<isProd, stripeEnv, resendKey, bookings, events, sig, ev, sess,
                 existing, inner, resp, duplicate, wrote, rowAtArrival>>
  /\ UNCHANGED <<checkoutVars, lookupVars, reviewVars>>

\* logEvent(admin, 'invoice_sent', { session_id }) after a successful send
TrySendBookingEmailMark(d) ==
  /\ pc[d] = "markSent"
  /\ \/ /\ events' = InsertEvent("invoice_sent", sess[d])
        /\ UNCHANGED faults
     \/ /\ CanFail
        /\ faults' = faults + 1
        /\ UNCHANGED events
  /\ Finish(d, 200)
  /\ UNCHANGED <<isProd, stripeEnv, resendKey, bookings, emails, sig, ev, sess,
                 existing, inner, threw, duplicate, wrote, mailed, rowAtArrival>>
  /\ UNCHANGED <<checkoutVars, lookupVars, reviewVars>>

\* a failed send recorded as 'invoice_sent' (not what the code does)
SendFailureRowMarksSent(how, sid) == Row("invoice_sent", sid)

\* row logged after a failed send: 'invoice_send_error' (send returned an error,
\* session_id kept) or 'invoice_send_exception' (catch; session_id is null there)
SendFailureRow(how, sid) ==
  IF how = "email_send_error" THEN Row("invoice_send_error", sid)
  ELSE Row("invoice_send_exception", None)

\* the failure of the send leaving trySendBookingEmail and reaching the catch
\* of POST (not what the code does)
TrySendBookingEmailRethrows(d) ==
  /\ pc[d] = "logSendFailure"
  /\ \/ /\ events' = events (+) SetToBag({SendFailureRow(threw[d], sess[d])})
        /\ UNCHANGED faults
     \/ /\ CanFail
        /\ faults' = faults + 1
        /\ UNCHANGED events
  /\ Finish(d, CatchStatus)
  /\ UNCHANGED <<isProd, stripeEnv, resendKey, bookings, emails, sig, ev, sess,
                 existing, inner, threw, duplicate, wrote, mailed, rowAtArrival>>
  /\ UNCHANGED <<checkoutVars, lookupVars, reviewVars>>

\* logEvent of the failure row; trySendBookingEmail then returns normally
TrySendBookingEmailLogFailure(d) ==
  /\ pc[d] = "logSendFailure"
  /\ \/ /\ events' = events (+) SetToBag({SendFailureRow(threw[d], sess[d])})
        /\ UNCHANGED faults
     \/ /\ CanFail
        /\ faults' = faults + 1
        /\ UNCHANGED events
  /\ Finish(d, 200)
  /\ UNCHANGED <<isProd, stripeEnv, resendKey, bookings, emails, sig, ev, sess,
                 existing, inner, threw, duplicate, wrote, mailed, rowAtArrival>>
  /\ UNCHANGED <<checkoutVars, lookupVars, reviewVars>>

\* ============================================================ checkout
\* ------------------------------------------------------------ catalog
TOURS ==
  { [slug |-> "bogota-coffee-culture", title |-> "Bogotá Coffee Culture", price |-> 120000],
    [slug |-> "medellin-street-art", title |-> "Medellín Street Art", price |-> 110000] }

\* result of a lookup that finds nothing (undefined)
NoTour == [slug |-> None, title |-> None, price |-> 0]

\* String.prototype.toLowerCase on the strings of the model
toLowerCase(str) ==
  CASE str = "Ana@KCE.co" -> "ana@kce.co"
    [] str = "MEDELLÍN STREET ART" -> "medellín street art"
    [] str = "Bogota-Coffee-Culture" -> "bogota-coffee-culture"
    [] str = "Bogotá Coffee Culture" -> "bogotá coffee culture"
    [] str = "Medellín Street Art" -> "medellín street art"
    [] OTHER -> str

\* a lookup that compares the slug as given (not what the code does)
getTourBySlugExact(slug) ==
  IF slug = None THEN NoTour
  ELSE LET m == {t \in TOURS : t.slug = slug} IN
       IF m = {} THEN NoTour ELSE CHOOSE t \in m : TRUE

\* TOURS_BY_SLUG.get(String(slug).toLowerCase()), the map keyed by lower-cased slug
getTourBySlug(slug) ==
  IF slug = None THEN NoTour
  ELSE LET m == {t \in TOURS : toLowerCase(t.slug) = toLowerCase(slug)} IN
       IF m = {} THEN NoTour ELSE CHOOSE t \in m : TRUE

\* TOURS.find((t) => t.title.toLowerCase() === data.tour.title.toLowerCase())
findByTitle(title) ==
  LET m == {t \in TOURS : toLowerCase(t.title) = toLowerCase(title)} IN
  IF m = {} THEN NoTour ELSE CHOOSE t \in m : TRUE

\* (slug && getTourBySlug(slug)) || (title && TOURS.find(...))
resolved(data) ==
  IF data.slug # None /\ getTourBySlug(data.slug) # NoTour THEN getTourBySlug(data.slug)
  ELSE IF data.title # None THEN findByTitle(data.title)
  ELSE NoTour

\* ------------------------------------------------------------ request bodies
\* An optional number is a sequence of length 0 (absent) or 1.
Slugs == {None, "bogota-coffee-culture", "Bogota-Coffee-Culture", "no-such-tour"}

Titles == {None, "MEDELLÍN STREET ART"}

Prices == {<<>>, <<1>>, <<-1>>}

Quantities == {0, 2}

Emails == {"ana@kce.co", "Ana@KCE.co", "not-an-email"}

Dates == {"2026-01-09", "2026-01-10", "2026-01-11", "2026-13-45", "10/01/2026"}

\* customer.name and phone of the request bodies of the checkout handler
CustomerName == "Ana Ruiz"

Phone == "+57 300 000 0000"

Requests ==
  [slug : Slugs, title : Titles, price : Prices, quantity : Quantities,
   email : Emails, date : Dates, name : {CustomerName}, phone : {Phone}]

NoRequest ==
  [slug |-> None, title |-> None, price |-> <<>>, quantity |-> 0,
   email |-> None, date |-> None, name |-> None, phone |-> None]

\* customer.name values: plain, padded with spaces, only spaces, too short
Names == {"Ana Ruiz", " Ana Ruiz ", "  ", "A"}

\* phone values, None when the body has no phone
Phones == {None, "+57 300 000 0000"}

\* z.string().min(2)
MinLength2(str) == str \in {"Ana Ruiz", " Ana Ruiz ", "  "}

\* z.string().email()
IsEmail(str) == str \in {"ana@kce.co", "Ana@KCE.co"}

\* Schema.safeParse(raw).success
SchemaOk(raw) ==
  /\ raw.slug # None \/ raw.title # None
  /\ raw.price = <<>> \/ raw.price[1] >= 0
  /\ raw.quantity >= 1 /\ raw.quantity <= 20
  /\ IsEmail(raw.email)
  /\ MinLength2(raw.name)
  /\ MatchesYMD(raw.date)

\* ------------------------------------------------------------ dates
\* Date.now() in seconds since 2025-12-31T00:00:00Z
NowEpoch == 10 * 86400 + nowSec

\* every parsable date counts as today or future (not what the code does)
isTodayOrFutureNoCompare(ymd) == parseYMD(ymd)

\* d >= now with now.setUTCHours(0, 0, 0, 0)
isTodayOrFuture(ymd) ==
  /\ parseYMD(ymd)
  /\ DayIndex(ymd) * 86400 >= NowEpoch - (NowEpoch % 86400)

\* status of the early returns of POST, 0 when the request passes them all
EarlyStatus(raw) ==
  IF ~SchemaOk(raw) THEN 400
  ELSE IF resolved(raw) = NoTour THEN 404
  ELSE IF ~parseYMD(raw.date) THEN 400
  ELSE IF ~isTodayOrFuture(raw.date) THEN 400
  ELSE 0

\* ------------------------------------------------------------ amounts
Max(a, b) == IF a >= b THEN a ELSE b

Min(a, b) == IF a <= b THEN a ELSE b

\* Math.round(n / d) for n >= 0, d > 0
Round(n, d) == (2 * n + d) \div (2 * d)

\* cop / rate * 100 is evaluated in IEEE-754 doubles: where the exact value
\* is k + 1/2 the computed one can fall just below it and Math.round gives k
\* (580 / 4000 * 100 = 14.499999999999998, 4020 / 4000 * 100 = 100.49999999999999).
\* The pairs of the model's prices and rates where that happens.
RoundsBelowHalf(cop, rate) == <<cop, rate>> \in {<<580, 4000>>, <<4020, 4000>>}

\* the conversion without its floor of 1 (not what the code does)
copToUsdCentsNoFloor(cop) ==
  Round(cop * 100, copUsdRate) - (IF RoundsBelowHalf(cop, copUsdRate) THEN 1 ELSE 0)

\* Math.max(1, Math.round(cop / rate * 100))
copToUsdCents(cop) ==
  Max(1, Round(cop * 100, copUsdRate) - (IF RoundsBelowHalf(cop, copUsdRate) THEN 1 ELSE 0))

\* amount taken from the request when it carries a price (not what the code does)
unitAmountFromRequest(data, tour) ==
  IF data.price # <<>> THEN Max(1, data.price[1])
  ELSE IF catalogCurrency = "USD" THEN Max(1, tour.price)
  ELSE copToUsdCents(tour.price)

\* catalogCurrency === 'USD' ? Math.max(1, resolved.price) : copToUsdCents(resolved.price)
unitAmountCents(data, tour) ==
  IF catalogCurrency = "USD" THEN Max(1, tour.price) ELSE copToUsdCents(tour.price)

\* values of STRIPE_SESSION_EXPIRES_MIN: unset, empty, below, inside and above
\* the range, and not a number
ExpiresMinSettings == {<<>>, <<"">>, <<"0">>, <<"5">>, <<"30">>, <<"90">>, <<"abc">>}

\* Math.max(15, Math.min(60, Number(process.env.STRIPE_SESSION_EXPIRES_MIN || 24))),
\* <<m>> or <<>> for NaN: Math.min and Math.max of NaN are NaN
expireMinutes ==
  LET n == IF expiresMinEnv = <<>> \/ expiresMinEnv = <<"">> THEN <<24>>
           ELSE Number(expiresMinEnv[1])
  IN IF n = <<>> THEN <<>> ELSE <<Max(15, Min(60, n[1]))>>

\* Math.floor(Date.now() / 1000) + expireMinutes * 60, <<>> for NaN
expires_at ==
  IF expireMinutes = <<>> THEN <<>> ELSE <<NowEpoch + expireMinutes[1] * 60>>

buildSuccessUrl(slug, date, qty) == <<"/checkout/success", "{CHECKOUT_SESSION_ID}", slug, date, qty>>

buildCancelUrl(slug, date, qty) == <<"/checkout/cancel", slug, date, qty>>

\* String(n) on the numbers of the model
String(n) ==
  CASE n = 0 -> "0" [] n = 1 -> "1" [] n = 2 -> "2" [] n = 3 -> "3"
    [] n = 10 -> "10" [] n = 50 -> "50" [] n = 60 -> "60" [] n = 580 -> "580"
    [] n = 100000 -> "100000" [] n = 110000 -> "110000" [] n = 120000 -> "120000"

metadata(data, tour) ==
  [date |-> data.date, quantity |-> String(data.quantity), tour_title |-> tour.title,
   tour_slug |-> tour.slug, tour_price_cop |-> String(tour.price),
   customer_name |-> data.name, phone |-> IF data.phone = None THEN "" ELSE data.phone,
   origin_currency |-> "COP", catalog_currency |-> catalogCurrency]

\* The SHA-256 digest of the JSON of these fields, kept as the fields themselves.
idemKey(data, tour) ==
  [slug |-> tour.slug, date |-> data.date, qty |-> data.quantity,
   email |-> toLowerCase(data.email), unitAmountCents |-> unitAmountCents(data, tour),
   success_url |-> buildSuccessUrl(tour.slug, data.date, data.quantity),
   cancel_url |-> buildCancelUrl(tour.slug, data.date, data.quantity)]

\* first argument of stripe.checkout.sessions.create
createParams(data, tour) ==
  [customer_email |-> data.email,
   success_url |-> buildSuccessUrl(tour.slug, data.date, data.quantity),
   cancel_url |-> buildCancelUrl(tour.slug, data.date, data.quantity),
   client_reference_id |-> <<tour.slug, data.date, data.email>>,
   expires_at |-> expires_at,
   quantity |-> data.quantity,
   unit_amount |-> unitAmountCents(data, tour),
   name |-> tour.title,
   metadata |-> metadata(data, tour)]

\* ------------------------------------------------------------ provider
\* what the last request led to; key and params are <<>> when create was not called
Answer(raw, status, called, provider, key, params, sessionId, created) ==
  [req |-> raw, status |-> status, called |-> called, provider |-> provider,
   key |-> key, params |-> params, sessionId |-> sessionId, created |-> created]

NoAnswer == Answer(NoRequest, 0, FALSE, None, <<>>, <<>>, 0, 0)

\* session.url of a created session: the hosted page, or null
SessionUrls == {"https://checkout.stripe.com/c/pay", None}

\* statusCode of an error thrown by the SDK, 0 when the error carries none
ProviderErrorCodes == {429, 0}

\* e?.statusCode && Number.isInteger(e.statusCode) ? e.statusCode : 500
CatchStatusCode(code) == IF code # 0 THEN code ELSE 500

\* Stripe compares the parameters of a request that reuses an idempotency key
\* with those of the first request: equal, the saved response is returned;
\* different, the request is refused with a 400 idempotency error.
SameParameters(first, again) == first = again

\* ------------------------------------------------------------ POST /api/checkout
CheckoutPost ==
  /\ submitted < NumCheckouts
  /\ submitted' = submitted + 1
  /\ prev' = last
  /\ \E raw \in Requests :
       LET tour == resolved(raw)
           key == idemKey(raw, tour)
           params == createParams(raw, tour)
           hit == {e \in idempotency : e.key = key}
       IN
       \* validation error, tour not found, invalid or past date
       \/ /\ EarlyStatus(raw) # 0
          /\ last' = Answer(raw, EarlyStatus(raw), FALSE, None, <<>>, <<>>, 0, 0)
          /\ UNCHANGED <<idempotency, sessions>>
       \* mock, or no STRIPE_SECRET_KEY: simulated success, no provider call
       \/ /\ EarlyStatus(raw) = 0 /\ stripeMock
          /\ last' = Answer(raw, 200, FALSE, None, <<>>, <<>>, 0, 0)
          /\ UNCHANGED <<idempotency, sessions>>
       \* sessions.create with a new idempotency key: a session is created
       \/ /\ EarlyStatus(raw) = 0 /\ ~stripeMock /\ hit = {}
          /\ \E url \in SessionUrls :
               LET id == Cardinality(sessions) + 1 IN
               /\ sessions' = sessions \cup
                    {[id |-> id, url |-> url, unit_amount |-> params.unit_amount,
                      quantity |-> params.quantity, metadata |-> params.metadata]}
               /\ idempotency' = idempotency \cup
                    {[key |-> key, params |-> params, session |-> id]}
               /\ last' = Answer(raw, IF url = None THEN 500 ELSE 200, TRUE, "created",
                                 key, params, IF url = None THEN 0 ELSE id, id)
       \* sessions.create with a new idempotency key: the provider rejects it
       \/ /\ EarlyStatus(raw) = 0 /\ ~stripeMock /\ hit = {}
          /\ \E code \in ProviderErrorCodes :
               last' = Answer(raw, CatchStatusCode(code), TRUE, "failed", key, params, 0, 0)
          /\ UNCHANGED <<idempotency, sessions>>
       \* sessions.create with an idempotency key already used
       \/ /\ EarlyStatus(raw) = 0 /\ ~stripeMock /\ hit # {}
          /\ LET e == CHOOSE e \in hit : TRUE
                 se == CHOOSE se \in sessions : se.id = e.session
             IN
             last' = IF SameParameters(e.params, params)
                       THEN Answer(raw, IF se.url = None THEN 500 ELSE 200, TRUE, "replayed",
                                   key, params, IF se.url = None THEN 0 ELSE se.id, 0)
                       ELSE Answer(raw, CatchStatusCode(400), TRUE, "mismatch",
                                   key, params, 0, 0)
          /\ UNCHANGED <<idempotency, sessions>>
  /\ UNCHANGED <<stripeMock, catalogCurrency, copUsdRate, expiresMinEnv, nowSec,
                 quote, payload>>
  /\ UNCHANGED <<webhookVars, lookupVars, reviewVars>>

\* a second passes
Tick ==
  /\ nowSec < MaxTicks
  /\ nowSec' = nowSec + 1
  /\ UNCHANGED <<stripeMock, catalogCurrency, copUsdRate, expiresMinEnv,
                 idempotency, sessions, submitted, last, prev, quote, payload>>
  /\ UNCHANGED <<webhookVars, lookupVars, reviewVars>>

\* no checkout request yet, default environment
CheckoutStart ==
  /\ copUsdRate = 4000
  /\ expiresMinEnv = <<>>
  /\ nowSec = 0
  /\ idempotency = {}
  /\ sessions = {}
  /\ submitted = 0
  /\ last = NoAnswer
  /\ prev = NoAnswer
  /\ quote = <<>>
  /\ payload = <<>>

CheckoutInit ==
  /\ stripeMock \in BOOLEAN
  /\ catalogCurrency \in {"COP", "USD"}
  /\ CheckoutStart
  /\ sbConfigured = FALSE /\ LookupIdle
  /\ ReviewIdle
  /\ isProd = TRUE /\ stripeEnv = TRUE /\ resendKey = TRUE
  /\ WebhookStart

CheckoutNext == CheckoutPost \/ Tick

CheckoutSpec == CheckoutInit /\ [][CheckoutNext]_vars

\* ------------------------------------------------------------ session parameters
\* The parameters POST builds for an accepted request, over catalog prices,
\* quantities and environment settings drawn from bounded sets.
CatalogPrices == {0, 10, 50, 60, 580, 100000}

\* configured STRIPE_COP_USD_RATE
Rates == {4000, 4200}

LineQuantities == {1, 3}

\* a catalog entry with each of the prices
Catalog ==
  {[slug |-> "bogota-coffee-culture", title |-> "Bogotá Coffee Culture", price |-> p] :
     p \in CatalogPrices}

\* request bodies that pass validation, resolve and carry a date not in the past
AcceptedRequests ==
  {raw \in [slug : {"bogota-coffee-culture"}, title : {None}, price : {<<>>},
            quantity : LineQuantities, email : {"ana@kce.co"}, date : {"2026-01-10"},
            name : Names, phone : Phones] :
     EarlyStatus(raw) = 0}

\* a line item charged once whatever its quantity (not what the provider does)
lineItemAmountOnce(params) == params.unit_amount

\* the provider charges quantity times unit_amount for the line item
lineItemAmount(params) == params.quantity * params.unit_amount

\* step 5 of POST up to the arguments of sessions.create
BuildParams ==
  /\ \E raw \in AcceptedRequests, tour \in Catalog :
       quote' = <<createParams(raw, tour), raw, tour>>
  /\ payload' = <<>>
  /\ UNCHANGED <<stripeMock, catalogCurrency, copUsdRate, expiresMinEnv, nowSec,
                 idempotency, sessions, submitted, last, prev>>
  /\ UNCHANGED <<webhookVars, lookupVars, reviewVars>>

\* ------------------------------------------------------------ booking from metadata
\* upsertBookingFromSession on a session created with the parameters in quote,
\* up to the payload of its insert
BuildInsertPayload ==
  /\ quote # <<>>
  /\ payload = <<>>
  /\ payload' = <<insertPayload(quote[1].metadata)>>
  /\ UNCHANGED <<stripeMock, catalogCurrency, copUsdRate, expiresMinEnv, nowSec,
                 idempotency, sessions, submitted, last, prev, quote>>
  /\ UNCHANGED <<webhookVars, lookupVars, reviewVars>>

ParamsInit ==
  /\ stripeMock = FALSE
  /\ catalogCurrency \in {"COP", "USD"}
  /\ copUsdRate \in Rates
  /\ expiresMinEnv \in ExpiresMinSettings
  /\ nowSec \in 0..MaxTicks
  /\ idempotency = {} /\ sessions = {} /\ submitted = 0
  /\ last = NoAnswer /\ prev = NoAnswer
  /\ quote = <<>>
  /\ payload = <<>>
  /\ isProd = TRUE /\ stripeEnv = TRUE /\ resendKey = TRUE
  /\ WebhookStart
  /\ sbConfigured = FALSE /\ LookupIdle
  /\ ReviewIdle

ParamsNext == BuildParams \/ BuildInsertPayload

ParamsSpec == ParamsInit /\ [][ParamsNext]_vars

\* ============================================================ tours server
\* getTourBySlug of features/tours/server.ts: concurrent calls over the
\* in-process cache; every await on the primary source is one step.
CACHE_TTL_MS == 20000

\* the clock advances in steps of 10 s
ClockStepMs == 10000

\* rows of the tours table of the primary source (base_price differs from
\* the static price of the same tour)
DbTours == {[slug |-> "bogota-coffee-culture", price |-> 130000]}

\* slugs the callers ask for
LookupSlugs == {"bogota-coffee-culture", "Bogota-Coffee-Culture", "no-such-tour", ""}

\* normalize(row)
normalize(row) == [slug |-> row.slug, price |-> row.price, source |-> "primary"]

\* TOURS.find((t) => t.slug === raw) ?? TOURS.find((t) => t.slug.toLowerCase() === key) ?? null,
\* mapped to the shape of the result
mockValue(raw, key) ==
  LET exact == {t \in TOURS : t.slug = raw}
      ci == {t \in TOURS : toLowerCase(t.slug) = key}
      m == IF exact # {} THEN exact ELSE ci
  IN IF m = {} THEN NullTour
     ELSE LET t == CHOOSE t \in m : TRUE IN
          [slug |-> t.slug, price |-> t.price, source |-> "static"]

\* an entry that never expires (not what the code does)
cacheNeverExpires(entry, t) == FALSE

\* hit.expires < now()
cacheExpired(entry, t) == entry.expires < t

\* TOUR_CACHE after setCache(key, value) at the current time
setCache(key, value) ==
  [TOUR_CACHE EXCEPT ![key] = <<[expires |-> nowMs + CACHE_TTL_MS, value |-> value]>>]

\* answers of .eq('slug', raw).maybeSingle() raced against the timer: the row,
\* no row, an error of the source, or the timer's { error: 'timeout' }
exactAnswers(raw) ==
  {[kind |-> "row", row |-> r] : r \in {r \in DbTours : r.slug = raw}}
    \cup {[kind |-> k, row |-> <<>>] : k \in {"error", "timeout"}}
    \cup (IF \E r \in DbTours : r.slug = raw THEN {} ELSE {[kind |-> "none", row |-> <<>>]})

\* the same for .ilike('slug', raw).maybeSingle()
ilikeAnswers(raw) ==
  {[kind |-> "row", row |-> r] : r \in {r \in DbTours : toLowerCase(r.slug) = toLowerCase(raw)}}
    \cup {[kind |-> k, row |-> <<>>] : k \in {"error", "timeout"}}
    \cup (IF \E r \in DbTours : toLowerCase(r.slug) = toLowerCase(raw) THEN {}
          ELSE {[kind |-> "none", row |-> <<>>]})

\* getTourBySlug up to its first await: empty slug, cache hit, or cache miss
\* followed by the static fallback when the primary source is not configured
GetTourBySlugCall(c) ==
  /\ lookups[c].pc \in {"idle", "done"}
  /\ lookupsStarted < MaxLookups
  /\ lookupsStarted' = lookupsStarted + 1
  /\ \E slug \in LookupSlugs :
       LET raw == trim(slug)
           key == toLowerCase(raw)
           call == [NoLookup EXCEPT !.raw = raw, !.key = key, !.at = nowMs]
       IN
       IF raw = ""
         THEN /\ lookups' = [lookups EXCEPT ![c] = [call EXCEPT !.pc = "done"]]
              /\ UNCHANGED TOUR_CACHE
       ELSE IF TOUR_CACHE[key] # <<>> /\ ~cacheExpired(TOUR_CACHE[key][1], nowMs)
         THEN /\ lookups' = [lookups EXCEPT ![c] =
                     [call EXCEPT !.pc = "done", !.cached = TRUE,
                                  !.result = TOUR_CACHE[key][1].value,
                                  !.hitExpires = TOUR_CACHE[key][1].expires]]
              /\ UNCHANGED TOUR_CACHE
       ELSE IF sbConfigured
         THEN /\ lookups' = [lookups EXCEPT ![c] = [call EXCEPT !.pc = "exact"]]
              /\ TOUR_CACHE' = [TOUR_CACHE EXCEPT ![key] = <<>>]
       ELSE /\ lookups' = [lookups EXCEPT ![c] =
                   [call EXCEPT !.pc = "done", !.result = mockValue(raw, key)]]
            /\ TOUR_CACHE' = setCache(key, mockValue(raw, key))
  /\ UNCHANGED <<sbConfigured, nowMs>>
  /\ UNCHANGED <<webhookVars, checkoutVars, reviewVars>>

\* the exact-match query resolves, or its timer fires
ExactQueryResolves(c) ==
  /\ lookups[c].pc = "exact"
  /\ \E ans \in exactAnswers(lookups[c].raw) :
       IF ans.kind = "row"
         THEN /\ lookups' = [lookups EXCEPT ![c].pc = "done", ![c].exact = ans.kind,
                                             ![c].result = normalize(ans.row)]
              /\ TOUR_CACHE' = setCache(lookups[c].key, normalize(ans.row))
         ELSE /\ lookups' = [lookups EXCEPT ![c].pc = "ci", ![c].exact = ans.kind]
              /\ UNCHANGED TOUR_CACHE
  /\ UNCHANGED <<sbConfigured, nowMs, lookupsStarted>>
  /\ UNCHANGED <<webhookVars, checkoutVars, reviewVars>>

\* the case-insensitive query resolves, or its timer fires; without a row the
\* static dataset answers
IlikeQueryResolves(c) ==
  /\ lookups[c].pc = "ci"
  /\ \E ans \in ilikeAnswers(lookups[c].raw) :
       LET value == IF ans.kind = "row" THEN normalize(ans.row)
                    ELSE mockValue(lookups[c].raw, lookups[c].key)
       IN
       /\ lookups' = [lookups EXCEPT ![c].pc = "done", ![c].ci = ans.kind,
                                      ![c].result = value]
       /\ TOUR_CACHE' = setCache(lookups[c].key, value)
  /\ UNCHANGED <<sbConfigured, nowMs, lookupsStarted>>
  /\ UNCHANGED <<webhookVars, checkoutVars, reviewVars>>

\* time passes
ClockAdvances ==
  /\ nowMs < MaxClockSteps * ClockStepMs
  /\ nowMs' = nowMs + ClockStepMs
  /\ UNCHANGED <<sbConfigured, TOUR_CACHE, lookups, lookupsStarted>>
  /\ UNCHANGED <<webhookVars, checkoutVars, reviewVars>>

LookupInit ==
  /\ sbConfigured \in BOOLEAN
  /\ LookupIdle
  /\ ReviewIdle
  /\ isProd = TRUE /\ stripeEnv = TRUE /\ resendKey = TRUE
  /\ WebhookStart
  /\ stripeMock = FALSE /\ catalogCurrency = "COP"
  /\ CheckoutStart

LookupNext ==
  \/ \E c \in Callers :
       \/ GetTourBySlugCall(c)
       \/ ExactQueryResolves(c)
       \/ IlikeQueryResolves(c)
  \/ ClockAdvances

\* Each await is a Promise.race against a timer of TIMEOUT_MS, so a pending
\* query step always happens: weak fairness on the two resolve steps.
LookupSpec ==
  /\ LookupInit
  /\ [][LookupNext]_vars
  /\ \A c \in Callers :
       WF_vars(ExactQueryResolves(c)) /\ WF_vars(IlikeQueryResolves(c))

\* ============================================================ reviews route
\* POST /api/reviews: concurrent requests from one IP for one tour slug, all
\* inside one rate-limit window; every await on the database is one step.
RATE_LIMIT_MAX == 5

\* bodies: rating, comment, the two honeypot fields (None when absent) and
\* whether startedAt is less than TIME_TRAP_MS ago
Ratings == {0, 3, 6}

Comments == {"Too short", "Great tour, loved it!", "<b>hi</b> http://spam.example"}

Honeypots == {None, "", "bot"}

Websites == {None, "http://spam.example"}

Bodies ==
  [rating : Ratings, comment : Comments, honeypot : Honeypots, website : Websites,
   tooSoon : BOOLEAN]

\* String.prototype.length on the comments of the model
Length(str) ==
  CASE str = "Too short" -> 9
    [] str = "Great tour, loved it!" -> 21
    [] str = "<b>hi</b> http://spam.example" -> 29
    [] str = "hi" -> 2

\* tags, URLs, @mentions and control characters removed, spaces collapsed
sanitizeComment(input) ==
  IF input = "<b>hi</b> http://spam.example" THEN "hi" ELSE input

\* Body.safeParse(raw).success for the fields of the model
BodyOk(raw) ==
  /\ raw.rating >= 1 /\ raw.rating <= 5
  /\ Length(raw.comment) >= 10 /\ Length(raw.comment) <= 800

\* (honeypot ?? website ?? '').trim()
trap(raw) ==
  trim(IF raw.honeypot # None THEN raw.honeypot
       ELSE IF raw.website # None THEN raw.website
       ELSE "")

\* Math.max(1, Math.min(5, Math.round(Number(data.rating))))
rating(raw) == Max(1, Min(5, raw.rating))

\* the row of the insert into reviews
ReviewRow(raw) ==
  [tour_slug |-> "bogota-coffee-culture", rating |-> rating(raw),
   comment |-> sanitizeComment(raw.comment), approved |-> FALSE, user_id |-> None,
   honeypot |-> "", ip |-> "203.0.113.7"]

\* used >= RATE_LIMIT_MAX
overLimit(used) == used >= RATE_LIMIT_MAX

\* a call of the reviews route to the database may fail
ReviewCanFail == reviewFaults < MaxFaults

ReviewFinish(r, status) ==
  rq' = [rq EXCEPT ![r].pc = "done", ![r].status = status]

\* POST up to the rate limit: validation, honeypot, time trap, sanitized comment
ReviewPost(r) ==
  /\ rq[r].pc = "start"
  /\ \E raw \in Bodies :
       LET status ==
             IF ~BodyOk(raw) THEN 400
             ELSE IF trap(raw) # "" THEN 200
             ELSE IF raw.tooSoon THEN 400
             ELSE IF Length(sanitizeComment(raw.comment)) < 10 THEN 400
             ELSE 0
       IN
       rq' = [rq EXCEPT ![r].body = raw,
                        ![r].eventsAtArrival = reviewEvents,
                        ![r].pc = IF status = 0 THEN "count" ELSE "done",
                        ![r].status = status]
  /\ UNCHANGED <<reviews, reviewEvents, reviewFaults>>
  /\ UNCHANGED <<webhookVars, checkoutVars, lookupVars>>

\* select count of 'review_submitted' events of the IP and slug in the window;
\* a failed count leaves count null (used = 0) and the request goes on
ReviewCount(r) ==
  /\ rq[r].pc = "count"
  /\ \/ /\ IF overLimit(reviewEvents) THEN ReviewFinish(r, 429)
              ELSE rq' = [rq EXCEPT ![r].pc = "insertReview"]
        /\ UNCHANGED reviewFaults
     \/ /\ ReviewCanFail
        /\ reviewFaults' = reviewFaults + 1
        /\ rq' = [rq EXCEPT ![r].pc = "insertReview"]
  /\ UNCHANGED <<reviews, reviewEvents>>
  /\ UNCHANGED <<webhookVars, checkoutVars, lookupVars>>

\* insert into reviews; error 23503 is answered 400, any other error 500
ReviewInsert(r) ==
  /\ rq[r].pc = "insertReview"
  /\ \/ /\ reviews' = reviews (+) SetToBag({ReviewRow(rq[r].body)})
        /\ rq' = [rq EXCEPT ![r].pc = "insertEvent", ![r].insertedReview = TRUE]
        /\ UNCHANGED reviewFaults
     \/ /\ ReviewCanFail
        /\ reviewFaults' = reviewFaults + 1
        /\ \E status \in {400, 500} : ReviewFinish(r, status)
        /\ UNCHANGED reviews
  /\ UNCHANGED reviewEvents
  /\ UNCHANGED <<webhookVars, checkoutVars, lookupVars>>

\* insert of the 'review_submitted' event; its error is not looked at
ReviewLogEvent(r) ==
  /\ rq[r].pc = "insertEvent"
  /\ \/ /\ reviewEvents' = reviewEvents + 1
        /\ rq' = [rq EXCEPT ![r].pc = "done", ![r].status = 200,
                             ![r].insertedEvent = TRUE]
        /\ UNCHANGED reviewFaults
     \/ /\ ReviewCanFail
        /\ reviewFaults' = reviewFaults + 1
        /\ ReviewFinish(r, 200)
        /\ UNCHANGED reviewEvents
  /\ UNCHANGED reviews
  /\ UNCHANGED <<webhookVars, checkoutVars, lookupVars>>

\* reviews accepted earlier in the window from the same IP for the same slug
PriorReviews == {0, 4, 5}

\* the row and the event count that n accepted reviews leave
ReviewInit ==
  /\ \E n \in PriorReviews :
       /\ reviews = [row \in (IF n = 0 THEN {} ELSE
                                {ReviewRow([NoBody EXCEPT !.rating = 5,
                                                          !.comment = "Great tour, loved it!"])})
                      |-> n]
       /\ reviewEvents = n
  /\ rq = [r \in ReviewRequests |-> NoReview]
  /\ reviewFaults = 0
  /\ sbConfigured = FALSE /\ LookupIdle
  /\ isProd = TRUE /\ stripeEnv = TRUE /\ resendKey = TRUE
  /\ WebhookStart
  /\ stripeMock = FALSE /\ catalogCurrency = "COP"
  /\ CheckoutStart

ReviewNext ==
  \E r \in ReviewRequests :
    \/ ReviewPost(r)
    \/ ReviewCount(r)
    \/ ReviewInsert(r)
    \/ ReviewLogEvent(r)

ReviewSpec == ReviewInit /\ [][ReviewNext]_vars

\* ------------------------------------------------------------ specification
WebhookNext ==
  \E d \in Deliveries :
    \/ PostEnvMissing(d)
    \/ PostRejectSignature(d)
    \/ PostVerified(d)
    \/ SeenOrMarkEventSelect(d)
    \/ SeenOrMarkEventInsert(d)
    \/ ListSessions(d)
    \/ UpsertBookingSelect(d)
    \/ UpsertBookingWrite(d)
    \/ UpdateBookingStatusSelect(d)
    \/ UpdateBookingStatusWrite(d)
    \/ LogEvent(d)
    \/ TrySendBookingEmailCheck(d)
    \/ TrySendBookingEmailSend(d)
    \/ TrySendBookingEmailMark(d)
    \/ TrySendBookingEmailLogFailure(d)

Init ==
  /\ WebhookInit
  /\ stripeMock = FALSE /\ catalogCurrency = "COP"
  /\ CheckoutStart
  /\ sbConfigured = FALSE /\ LookupIdle
  /\ ReviewIdle

Next == WebhookNext

Spec == Init /\ [][Next]_vars

\* The tables as an earlier, completed request for evt_1
\* (checkout.session.completed, cs_1, paid) leaves them: the booking row, the
\* 'stripe_event_seen' and audit rows and, with RESEND_API_KEY set, the mail
\* and its 'invoice_sent' marker.
PaidBookingStart ==
  /\ bookings = {BookingRow(1, "cs_1", "paid")}
  /\ events = SetToBag({Row("stripe_event_seen", "evt_1"),
                        Row("stripe_checkout_completed", "evt_1")}
                        \cup (IF resendKey THEN {Row("invoice_sent", "cs_1")} ELSE {}))
  /\ emails = IF resendKey THEN SetToBag({[session |-> "cs_1", attachment |-> TRUE]})
               ELSE EmptyBag
  /\ RequestsStart

PaidBookingInit ==
  /\ isProd \in BOOLEAN
  /\ stripeEnv \in BOOLEAN
  /\ resendKey \in BOOLEAN
  /\ PaidBookingStart
  /\ stripeMock = FALSE /\ catalogCurrency = "COP"
  /\ CheckoutStart
  /\ sbConfigured = FALSE /\ LookupIdle
  /\ ReviewIdle

\* deliveries that follow an already handled checkout.session.completed
PaidBookingSpec == PaidBookingInit /\ [][Next]_vars

\* The tables as an earlier delivery of evt_1 (checkout.session.completed,
\* cs_1) leaves them when its booking select or write failed and the catch of
\* POST answered 500: the 'stripe_event_seen' row written before the switch,
\* no booking row, no audit row, no mail.
FailedDeliveryStart ==
  /\ bookings = {}
  /\ events = SetToBag({Row("stripe_event_seen", "evt_1")})
  /\ emails = EmptyBag
  /\ RequestsStart

FailedDeliveryInit ==
  /\ isProd = TRUE
  /\ stripeEnv \in BOOLEAN
  /\ resendKey \in BOOLEAN
  /\ FailedDeliveryStart
  /\ stripeMock = FALSE /\ catalogCurrency = "COP"
  /\ CheckoutStart
  /\ sbConfigured = FALSE /\ LookupIdle
  /\ ReviewIdle

\* redeliveries that follow a delivery answered 500
RedeliverySpec == FailedDeliveryInit /\ [][Next]_vars

TypeOK ==
  /\ \A d \in Deliveries : resp[d] \in {0, 200, 400, 500}
  /\ \A b \in bookings : b.status \in {"pending", "paid", "canceled"}


\* ------------------------------------------------------------ derived views
\* deliveries whose signature verified and that carry event id e
DeliveriesOf(e) == {d \in Deliveries : ev[d] = e}

\* mails sent for a session, with or without attachment
EmailsTo(s) ==
  CopiesIn([session |-> s, attachment |-> TRUE], emails)
    + CopiesIn([session |-> s, attachment |-> FALSE], emails)

\* every verified delivery carries another event id
DistinctEventIds ==
  \A c, d \in Deliveries : (c # d /\ ev[c] # None /\ ev[d] # None) => ev[c] # ev[d]

RejectedSignature(h) == h \in {"missing", "bad"}

\* ------------------------------------------------------------ claims

\* C1 (as claimed): event idempotency. With no call failing, the deliveries of
\* one event id together write the booking at most once and send at most one
\* confirmation mail.
C1_EventIdempotency ==
  faults = 0 =>
    \A e \in EventIds :
      /\ Cardinality({d \in DeliveriesOf(e) : wrote[d] > 0}) <= 1
      /\ Cardinality({d \in DeliveriesOf(e) : mailed[d] > 0}) <= 1

\* C2: booking upsert uniqueness. In every reachable state the bookings table
\* holds at most one row per stripe_session_id.
C2_BookingUniqueness ==
  \A s \in SessionIds : Cardinality(BookingsOf(s)) <= 1

\* C2 witness: two deliveries raced on the same session with no injected
\* failure; one wrote the row, the insert of the other was refused.
C2_Witness ==
  \E c, d \in Deliveries :
    /\ c # d /\ sess[c] = sess[d] /\ sess[c] # None
    /\ faults = 0
    /\ wrote[c] = 1 /\ threw[d] = "upsert"
    /\ Cardinality(BookingsOf(sess[c])) = 1

\* C3 (as claimed): notification at most once. With no call failing and every
\* delivery carrying a different event id, no session is mailed twice.
C3_NotificationAtMostOnce ==
  (faults = 0 /\ DistinctEventIds) => \A s \in SessionIds : EmailsTo(s) <= 1

\* C4 (as claimed): a finished request whose signature header was missing or
\* failed verification was answered 400.
C4_Rejected400 ==
  \A d \in Deliveries :
    (pc[d] = "done" /\ RejectedSignature(sig[d])) => resp[d] = 400

\* C4 (amended): the step that takes in a request whose signature header is
\* missing or fails verification finishes the request, changes neither
\* bookings nor events nor the mails sent, and answers 400 when the Stripe
\* secrets are configured (500 in production and 200 otherwise when they are
\* not).
C4_SignatureEnforcement ==
  [][\A d \in Deliveries :
       (pc[d] = "start" /\ pc'[d] # "start" /\ RejectedSignature(sig'[d])) =>
          /\ pc'[d] = "done"
          /\ resp'[d] = IF stripeEnv THEN 400 ELSE IF isProd THEN 500 ELSE 200
          /\ UNCHANGED <<bookings, events, emails>>
          /\ wrote'[d] = 0 /\ mailed'[d] = 0]_vars

\* C4 witness: a request with a bad signature was answered 400 while the
\* tables already held a booking and ledger rows.
C4_Witness ==
  \E d \in Deliveries :
    /\ pc[d] = "done" /\ sig[d] = "bad" /\ resp[d] = 400
    /\ bookings # {} /\ events # EmptyBag

\* C9 (as claimed): a failed booking upsert while handling a verified, not yet
\* seen event is answered 500 in production and 200 otherwise.
C9_FailurePropagates ==
  \A d \in Deliveries :
    (pc[d] = "done" /\ threw[d] = "upsert") => resp[d] = CatchStatus

\* C10 (as claimed): checkout.session.expired for a session that had no booking
\* row when the request arrived is answered 200 and writes no booking row.
C10_ExpiredNoRowAtArrival ==
  \A d \in Deliveries :
    (/\ pc[d] = "done" /\ ev[d] # None /\ ~duplicate[d]
     /\ EventCatalog[ev[d]].type = "checkout.session.expired"
     /\ ~rowAtArrival[d])
      => (resp[d] = 200 /\ wrote[d] = 0)

\* C10 (amended): when the lookup of updateBookingStatusBySessionId finds no
\* booking row for the expired session, the handler writes no booking row and
\* answers 200; when the lookup fails, it writes no row either and answers 500
\* in production, 200 otherwise.
C10_ExpiredNoRowFound ==
  \A d \in Deliveries :
    (/\ pc[d] = "done" /\ ev[d] # None /\ ~duplicate[d]
     /\ EventCatalog[ev[d]].type = "checkout.session.expired"
     /\ existing[d] = NoRow)
      => /\ wrote[d] = 0
         /\ resp[d] = IF threw[d] = None THEN 200 ELSE CatchStatus

\* C10 witness: an expired event finished after its lookup found no row.
C10_Witness ==
  \E d \in Deliveries :
    /\ pc[d] = "done" /\ ev[d] # None /\ ~duplicate[d]
    /\ EventCatalog[ev[d]].type = "checkout.session.expired"
    /\ existing[d] = NoRow /\ threw[d] = None
    /\ resp[d] = 200 /\ bookings = {}
    /\ CountRows("stripe_checkout_expired", ev[d]) = 1


\* ------------------------------------------------------------ checkout claims
\* the two request bodies differ at most in tour.price
SameButPrice(a, b) == [a EXCEPT !.price = <<>>] = [b EXCEPT !.price = <<>>]

\* current UTC calendar day, as a day index
TodayIndex == NowEpoch \div 86400

\* the date is a calendar date before the current UTC day
IsPastDate(ymd) == DayIndex(ymd) >= 0 /\ DayIndex(ymd) < TodayIndex

\* C5: price authority. Two requests that reached sessions.create and whose
\* bodies differ at most in tour.price (value or presence) were sent with the
\* same line-item unit amount, the same metadata and the same idempotency key,
\* and the unit amount is the catalog price of the resolved tour converted to
\* provider minor units.
C5_PriceAuthority ==
  (prev.called /\ last.called /\ SameButPrice(prev.req, last.req)) =>
     /\ last.params.unit_amount = prev.params.unit_amount
     /\ last.params.metadata = prev.params.metadata
     /\ last.key = prev.key
     /\ last.params.metadata.tour_price_cop = String(resolved(last.req).price)
     /\ last.params.unit_amount =
          IF catalogCurrency = "USD" THEN Max(1, resolved(last.req).price)
          ELSE Max(1, Round(resolved(last.req).price * 100, copUsdRate))

\* C5 witness: two accepted requests, one without a price and one with a
\* price, reached the provider.
C5_Witness ==
  /\ prev.called /\ last.called
  /\ SameButPrice(prev.req, last.req)
  /\ prev.req.price = <<>> /\ last.req.price = <<1>>
  /\ prev.status = 200 /\ last.status = 200

\* C6 (as claimed): a request whose date is before the current UTC day is
\* answered 400 and sessions.create is not called.
C6_PastDate400 ==
  (submitted > 0 /\ IsPastDate(last.req.date)) =>
     (last.status = 400 /\ ~last.called)

\* C6 (amended): a request whose date is before the current UTC day never
\* reaches sessions.create and creates no session; it is answered 404 when its
\* body is valid and its tour reference resolves to no catalog entry, and 400
\* otherwise.
C6_PastDateRejected ==
  (submitted > 0 /\ IsPastDate(last.req.date)) =>
     /\ ~last.called /\ last.created = 0
     /\ last.status = IF SchemaOk(last.req) /\ resolved(last.req) = NoTour THEN 404 ELSE 400

\* C6 witness: a valid request for a catalog tour with yesterday's date was
\* answered 400 by a live (non-mock) handler that had created a session before.
C6_Witness ==
  /\ submitted > 0 /\ last.req.date = "2026-01-09"
  /\ SchemaOk(last.req) /\ resolved(last.req) # NoTour
  /\ last.status = 400 /\ ~stripeMock /\ sessions # {}

\* C7 (as claimed): the same request body submitted again after a first
\* submission that returned a session gets the same idempotency key and the
\* same session back, with status 200.
C7_RetryReturnsSameSession ==
  (prev.called /\ prev.status = 200 /\ last.called /\ last.req = prev.req) =>
     /\ last.key = prev.key
     /\ last.status = 200
     /\ last.sessionId = prev.sessionId

\* C8 (as claimed): a request answered with a status other than 200 has
\* created no provider session.
C8_NoOrphanSession ==
  (submitted > 0 /\ last.status # 200) => last.created = 0


\* ============================================================ status and notification
\* status a booking takes from the payment_status of the event's session
StatusOfPayment(e) == IF EventCatalog[e].payment_status = "paid" THEN "paid" ELSE "pending"

\* event types with a case of their own in the switch of POST
ListedTypes ==
  {"checkout.session.completed", "checkout.session.async_payment_succeeded",
   "checkout.session.async_payment_failed", "checkout.session.expired",
   "payment_intent.succeeded", "payment_intent.payment_failed", "charge.refunded"}

IsLogOnly(t) ==
  \/ t \in {"checkout.session.async_payment_failed", "payment_intent.payment_failed"}
  \/ t \notin ListedTypes

LogOnlyAudit(t) ==
  CASE t = "checkout.session.async_payment_failed" -> "stripe_checkout_async_failed"
    [] t = "payment_intent.payment_failed" -> "stripe_pi_failed"
    [] OTHER -> "stripe_unhandled_event"

\* C11: status derivation. The step in which a checkout.session.completed or
\* checkout.session.async_payment_succeeded delivery completes its booking
\* write leaves a row for the session whose status is 'paid' exactly when the
\* session's payment_status is 'paid' and 'pending' otherwise; and when such a
\* delivery ends without a failed upsert, a row for its session exists.
C11_StatusDerivation ==
  [][\A d \in Deliveries :
       /\ (pc[d] = "upsertWrite" /\ pc'[d] = "log" /\ threw'[d] = None
              /\ TypeOf(d) \in UpsertTypes) =>
            LET rows == {b \in bookings' : b.stripe_session_id = sess[d]} IN
            /\ rows # {}
            /\ \A b \in rows :
                 b.status = IF EventCatalog[ev[d]].payment_status = "paid"
                              THEN "paid" ELSE "pending"
       /\ (pc[d] # "done" /\ pc'[d] = "done" /\ ev[d] # None /\ ~duplicate'[d]
              /\ threw'[d] # "upsert" /\ TypeOf(d) \in UpsertTypes) =>
            {b \in bookings' : b.stripe_session_id = sess[d]} # {}]_vars

\* C11 witness: checkout.session.completed with payment_status unpaid wrote a
\* pending row, and a later async_payment_succeeded read it and made it paid.
C11_Witness ==
  \E c, d \in Deliveries :
    /\ ev[c] = "evt_6" /\ pc[c] = "done" /\ wrote[c] = 1 /\ existing[c] = NoRow
    /\ ev[d] = "evt_7" /\ pc[d] = "done" /\ wrote[d] = 1
    /\ existing[d].status = "pending"
    /\ \A b \in BookingsOf("cs_2") : b.status = "paid"
    /\ BookingsOf("cs_2") # {}

\* C12 (as claimed): notification only on paid. A delivery that sent a
\* confirmation email handled a session whose payment_status is 'paid'.
C12_NotificationOnlyOnPaid ==
  \A d \in Deliveries : mailed[d] > 0 => EventCatalog[ev[d]].payment_status = "paid"

\* C13 (as claimed): partial delivery on PDF failure. A delivery whose invoice
\* PDF render failed has sent the email for its session without attachment.
C13_PdfFailureStillSends ==
  \A d \in Deliveries :
    (pc[d] = "done" /\ threw[d] = "email_pdf") =>
       CopiesIn([session |-> sess[d], attachment |-> FALSE], emails) >= 1

\* C14: booking decoupled from notification. Every step a delivery takes when
\* its email send failed or threw leaves the bookings table as it is, adds no
\* 'invoice_sent' row for the session, counts no mail, and ends the request
\* with 200.
C14_BookingDecoupled ==
  [][\A d \in Deliveries :
       (pc[d] \in {"send", "logSendFailure"} /\ pc'[d] # pc[d]
          /\ threw'[d] \in {"email_send_exception", "email_send_error"}) =>
         /\ UNCHANGED bookings
         /\ CopiesIn(Row("invoice_sent", sess[d]), events')
              = CopiesIn(Row("invoice_sent", sess[d]), events)
         /\ mailed'[d] = 0
         /\ pc'[d] \in {"logSendFailure", "done"}
         /\ pc'[d] = "done" => resp'[d] = 200]_vars

\* C14 witness: in production, a delivery wrote a paid booking, its send
\* returned an error, and it answered 200 with the booking still paid and no
\* 'invoice_sent' row.
C14_Witness ==
  \E d \in Deliveries :
    /\ isProd /\ pc[d] = "done" /\ threw[d] = "email_send_error" /\ resp[d] = 200
    /\ wrote[d] = 1 /\ mailed[d] = 0
    /\ BookingsOf(sess[d]) # {}
    /\ \A b \in BookingsOf(sess[d]) : b.status = "paid" /\ b.total = AmountTotal(sess[d])
    /\ CountRows("invoice_sent", sess[d]) = 0
    /\ CountRows("invoice_send_error", sess[d]) = 1

\* C15: marker after send. In every reachable state the 'invoice_sent' rows of
\* a session are no more than the mails already sent for it.
C15_MarkerAfterSend ==
  \A s \in SessionIds : CountRows("invoice_sent", s) <= EmailsTo(s)

\* C15 witness: a delivery sent the mail of its session and the marker is there;
\* another delivery has sent a mail whose marker is not written yet.
C15_Witness ==
  \E c, d \in Deliveries :
    /\ pc[d] = "done" /\ mailed[d] = 1
    /\ CountRows("invoice_sent", sess[d]) = 1 /\ EmailsTo(sess[d]) = 1
    /\ pc[c] = "markSent" /\ mailed[c] = 1
    /\ CountRows("invoice_sent", sess[c]) = 0 /\ EmailsTo(sess[c]) = 1

C17_LogOnlyEvents ==
  [][\A d \in Deliveries :
       (ev[d] # None /\ pc'[d] # pc[d] /\ IsLogOnly(TypeOf(d))) =>
         /\ UNCHANGED <<bookings, emails>>
         /\ wrote'[d] = 0 /\ mailed'[d] = 0
         /\ pc[d] = "log" =>
              /\ pc'[d] = "done" /\ resp'[d] = 200
              /\ events' = IF faults' = faults
                             THEN InsertEvent(LogOnlyAudit(TypeOf(d)), ev[d])
                             ELSE events
         /\ pc[d] # "log" =>
              /\ pc[d] \in {"seenSelect", "seenInsert"}
              /\ events' \in {events, InsertEvent("stripe_event_seen", ev[d])}]_vars

\* C17 witness: async_payment_failed arrived for a session that had a pending
\* booking; the booking is as it was and the audit row is there.
C17_Witness ==
  \E c, d \in Deliveries :
    /\ ev[c] = "evt_6" /\ pc[c] = "done" /\ wrote[c] = 1
    /\ ev[d] = "evt_8" /\ pc[d] = "done" /\ resp[d] = 200 /\ rowAtArrival[d]
    /\ CountRows("stripe_checkout_async_failed", "evt_8") = 1
    /\ BookingsOf("cs_2") = {BookingRow(1, "cs_2", "pending")}
    /\ \A b \in BookingsOf("cs_2") : b.total = 5500
    /\ mailed[d] = 0

\* C18: last-write-wins. No transition guard: the update branch of the upsert
\* sets the status derived from payment_status on the row it read, and the
\* status update sets 'canceled' on the row it read, whatever status was read.
C18_NoTransitionGuard ==
  [][\A d \in Deliveries :
       /\ (pc[d] = "upsertWrite" /\ existing[d] # NoRow /\ pc'[d] = "log"
              /\ threw'[d] = None) =>
            \E b \in bookings' : b.id = existing[d].id /\ b.status = StatusOfPayment(ev[d])
       /\ (pc[d] = "statusWrite" /\ pc'[d] = "log" /\ threw'[d] = None) =>
            \E b \in bookings' : b.id = existing[d].id /\ b.status = "canceled"]_vars

\* C18 witness: the regression. The paid booking left by evt_1 was read as
\* paid and canceled by a refunded or expired event, then read as canceled and
\* set back to paid by a paid-equivalent event with another event id.
C18_Witness ==
  \E c, d \in Deliveries :
    /\ c # d /\ ev[c] # None /\ ev[d] # None
    /\ TypeOf(c) \in {"charge.refunded", "checkout.session.expired"}
    /\ existing[c].status = "paid" /\ wrote[c] = 1
    /\ TypeOf(d) \in UpsertTypes \cup {"payment_intent.succeeded"}
    /\ ev[d] # "evt_1"
    /\ existing[d].id = existing[c].id
    /\ existing[d].status = "canceled" /\ wrote[d] = 1
    /\ \E b \in bookings : b.id = existing[d].id /\ b.status = "paid"

\* what the upsert and notification steps leave behind for a delivery that
\* worked on session s
UpsertNotifyOutcome(d, s) ==
  /\ sess[d] = s
  /\ threw[d] = None =>
       /\ wrote[d] = 1
       /\ BookingsOf(s) # {}
       /\ resendKey => (mailed[d] = 1 \/ CountRows("invoice_sent", s) >= 1)
       /\ ~resendKey => mailed[d] = 0

\* C19: payment-intent fallback. A finished payment_intent.succeeded delivery
\* whose list call returned a session has left what a finished
\* checkout.session.completed delivery leaves for its session (one booking
\* write, the row present, the mail sent unless the marker was there); when
\* the list call returned no session or failed, it wrote no booking and sent
\* no mail.
C19_PaymentIntentFallback ==
  \A d \in Deliveries :
    (pc[d] = "done" /\ ev[d] # None /\ ~duplicate[d]) =>
      LET e == EventCatalog[ev[d]] IN
      /\ e.type = "checkout.session.completed" => UpsertNotifyOutcome(d, e.session)
      /\ e.type = "payment_intent.succeeded" =>
           IF threw[d] = "list" \/ ListSessionByIntent(e.pi) = None
             THEN sess[d] = None /\ wrote[d] = 0 /\ mailed[d] = 0
             ELSE UpsertNotifyOutcome(d, ListSessionByIntent(e.pi))

\* C19 witness: payment_intent.succeeded for pi_1 created the paid booking of
\* cs_1 and sent its mail.
C19_Witness ==
  \E d \in Deliveries :
    /\ ev[d] = "evt_3" /\ pc[d] = "done" /\ threw[d] = None
    /\ wrote[d] = 1 /\ mailed[d] = 1
    /\ BookingsOf("cs_1") = {BookingRow(1, "cs_1", "paid")}
    /\ \A b \in BookingsOf("cs_1") : b.total = 3000
    /\ CountRows("stripe_pi_succeeded_linked", "evt_3") = 1
    /\ CountRows("invoice_sent", "cs_1") = 1

\* C20 (as claimed): no lost updates without locking. With no call failing,
\* there is at most one 'stripe_event_seen' row per event id, at most one
\* 'invoice_sent' row per session, and no delivery has failed.
C20_NoLostUpdates ==
  faults = 0 =>
    /\ \A e \in EventIds : CountRows("stripe_event_seen", e) <= 1
    /\ \A s \in SessionIds : CountRows("invoice_sent", s) <= 1
    /\ \A d \in Deliveries : threw[d] = None

\* ------------------------------------------------------------ C21
\* |a|
Abs(a) == IF a >= 0 THEN a ELSE -a

\* m is an integer nearest to n / d (either neighbour when n / d is k + 1/2)
IsNearest(m, n, d) == 2 * Abs(m * d - n) <= d

\* the catalog price the parameters in quote were built for
QuotedPrice == quote[3].price

\* C21 (as stated): with a USD catalog the unit amount is the catalog price
\* itself, otherwise it is p / r * 100 rounded half up, at least 1.
C21_PassThroughOrHalfUp ==
  quote # <<>> =>
    quote[1].unit_amount =
      IF catalogCurrency = "USD" THEN QuotedPrice
      ELSE Max(1, Round(QuotedPrice * 100, copUsdRate))

\* C21: the unit amount sent to the provider is an integer >= 1; with a USD
\* catalog it is the catalog price, 1 for a price of 0; otherwise it is an
\* integer nearest to p / r * 100, and 1 when that integer is 0.
C21_UnitAmount ==
  quote # <<>> =>
    LET u == quote[1].unit_amount
        p == QuotedPrice
    IN
    /\ u \in Nat /\ u >= 1
    /\ catalogCurrency = "USD" => u = Max(1, p)
    /\ catalogCurrency # "USD" =>
         \E m \in {u - 1, u} : IsNearest(m, p * 100, copUsdRate) /\ u = Max(1, m)

\* a converted price that rounds to 0 is sent as 1
C21_Witness ==
  /\ quote # <<>>
  /\ catalogCurrency = "COP"
  /\ QuotedPrice = 10
  /\ quote[1].unit_amount = 1

\* ------------------------------------------------------------ C22
\* quantity 3 of a tour priced 100,000 COP at the rate 4000
IsScenario ==
  /\ quote # <<>>
  /\ catalogCurrency = "COP" /\ copUsdRate = 4000
  /\ QuotedPrice = 100000 /\ quote[1].quantity = 3

\* C22 (as stated): the amount of the session is the rounding of the whole
\* product quantity * p / r * 100, which is 750,000 in the scenario.
C22_WholeProductRounding ==
  /\ quote # <<>> /\ catalogCurrency = "COP" =>
       lineItemAmount(quote[1]) =
         Round(quote[1].quantity * QuotedPrice * 100, copUsdRate)
  /\ IsScenario => lineItemAmount(quote[1]) = 750000

\* C22: the amount of the session is the quantity times the unit amount, the
\* unit amount being the per-unit rounding of p / r * 100 with its floor of 1;
\* in the scenario the unit amount is 2,500 and the amount 7,500.
C22_PerUnitRounding ==
  /\ quote # <<>> /\ catalogCurrency = "COP" =>
       \E m \in {quote[1].unit_amount - 1, quote[1].unit_amount} :
         /\ IsNearest(m, QuotedPrice * 100, copUsdRate)
         /\ lineItemAmount(quote[1]) = quote[1].quantity * Max(1, m)
  /\ IsScenario => quote[1].unit_amount = 2500 /\ lineItemAmount(quote[1]) = 7500

\* the scenario, and a quote where the two roundings differ (3 x 50 COP:
\* 3 x round(1.25) = 3 against round(3.75) = 4) are both built
C22_Witness == IsScenario /\ lineItemAmount(quote[1]) = 7500

C22_WitnessRoundingsDiffer ==
  /\ quote # <<>> /\ catalogCurrency = "COP" /\ copUsdRate = 4000
  /\ QuotedPrice = 50 /\ quote[1].quantity = 3
  /\ lineItemAmount(quote[1]) = 3

\* ------------------------------------------------------------ C23
\* the last request passed validation
LastValid == submitted > 0 /\ SchemaOk(last.req)

\* slug of the catalog entry the session parameters of the last request name
LastTourSlug == last.params.metadata.tour_slug

\* C23 (as stated): a slug that differs from a catalog slug in letter case
\* does not match: the request resolves by its title or ends with 404.
C23_SlugMatchIsExact ==
  (LastValid /\ last.req.slug = "Bogota-Coffee-Culture") =>
     /\ last.req.title = None => last.status = 404
     /\ last.called => LastTourSlug = "medellin-street-art"

\* C23: a slug matches the catalog slug it equals up to letter case and then
\* decides the tour whatever the title; a title matches case-insensitively
\* and is used only when the slug is absent or matches nothing; when neither
\* matches the request is answered 404 and no session is created.
C23_CatalogResolution ==
  LastValid =>
    /\ last.req.slug \in {"bogota-coffee-culture", "Bogota-Coffee-Culture"} =>
         /\ last.status # 404
         /\ last.called => LastTourSlug = "bogota-coffee-culture"
    /\ (last.req.slug \in {None, "no-such-tour"} /\ last.req.title = "MEDELLÍN STREET ART") =>
         /\ last.status # 404
         /\ last.called => LastTourSlug = "medellin-street-art"
    /\ (last.req.slug = "no-such-tour" /\ last.req.title = None) =>
         /\ last.status = 404
         /\ ~last.called /\ last.created = 0

\* a slug in another letter case with the title of another tour reached the
\* provider as the tour of the slug
C23_Witness ==
  /\ LastValid /\ last.called /\ last.status = 200
  /\ last.req.slug = "Bogota-Coffee-Culture"
  /\ last.req.title = "MEDELLÍN STREET ART"
  /\ LastTourSlug = "bogota-coffee-culture"

\* the title decided after a slug that matches nothing, and an unknown slug
\* without a title was answered 404
C23_WitnessTitleFallback ==
  /\ LastValid /\ last.called /\ last.req.slug = "no-such-tour"
  /\ LastTourSlug = "medellin-street-art"
  /\ prev.req.slug = "no-such-tour" /\ prev.req.title = None /\ prev.status = 404

\* ------------------------------------------------------------ C24
\* C24 (as stated): whatever STRIPE_SESSION_EXPIRES_MIN is set to, expires_at
\* is the creation time plus m * 60 seconds for an integer m in 15..60.
C24_ExpirationClamp ==
  quote # <<>> =>
    \E m \in 15..60 : quote[1].expires_at = <<NowEpoch + m * 60>>

\* ------------------------------------------------------------ C25
\* the request the parameters in quote were built from
QuotedRequest == quote[2]

StaticEntry(key) ==
  IF key = "bogota-coffee-culture"
    THEN [slug |-> "bogota-coffee-culture", price |-> 120000, source |-> "static"]
    ELSE NullTour

\* the call of caller c got no row from the primary source: not configured,
\* or each of its two queries ended in an error, a timeout or no row
NoRowFromPrimary(c) ==
  \/ ~sbConfigured
  \/ /\ lookups[c].exact \in {"none", "error", "timeout"}
     /\ lookups[c].ci \in {"none", "error", "timeout"}

C26_FallbackAndExpiry ==
  \A c \in Callers :
    lookups[c].pc = "done" =>
      /\ (lookups[c].cached) => lookups[c].at <= lookups[c].hitExpires
      /\ (~lookups[c].cached /\ lookups[c].raw # "" /\ NoRowFromPrimary(c)) =>
           lookups[c].result = StaticEntry(lookups[c].key)

C27_RedeliveryProcessed ==
  \A d \in Deliveries :
    (ev[d] = "evt_1" /\ pc[d] = "done") => ~duplicate[d]

\* ------------------------------------------------------------ C28
\* delivery d takes the update branch of upsertBookingFromSession in this step
TakesUpdateBranch(d) ==
  /\ pc[d] = "upsertWrite" /\ existing[d] # NoRow
  /\ wrote'[d] = wrote[d] + 1

C29_ReviewModeration ==
  /\ \A row \in BagToSet(reviews) :
       row.approved = FALSE /\ row.rating \in 1..5 /\ row.honeypot = ""
  /\ \A r \in ReviewRequests :
       LET raw == rq[r].body IN
       (/\ rq[r].pc # "start"
        /\ \/ raw.honeypot \notin {None, ""}
           \/ raw.website \notin {None, ""}
           \/ ~BodyOk(raw)
           \/ Length(sanitizeComment(raw.comment)) < 10)
         => ~rq[r].insertedReview /\ ~rq[r].insertedEvent

\* ------------------------------------------------------------ C30
\* C30 (as stated): at most RATE_LIMIT_MAX reviews are accepted in the window
\* for the IP and slug, under any interleaving; and a request that arrives
\* when RATE_LIMIT_MAX 'review_submitted' events exist is answered 429 and
\* inserts nothing.
C30_ReviewRateLimit ==
  /\ BagCardinality(reviews) <= RATE_LIMIT_MAX
  /\ \A r \in ReviewRequests :
       (/\ rq[r].pc = "done"
        /\ rq[r].eventsAtArrival >= RATE_LIMIT_MAX
        /\ BodyOk(rq[r].body) /\ trap(rq[r].body) = "" /\ ~rq[r].body.tooSoon
        /\ Length(sanitizeComment(rq[r].body.comment)) >= 10)
         => rq[r].status = 429 /\ ~rq[r].insertedReview /\ ~rq[r].insertedEvent

====
